---- MODULE Spec2Model ----
(***************************************************************************)
(* apex::pthread_wrapper (src/apex/pthread_wrapper.hpp): one owner thread  *)
(* that constructs, configures, stops and destroys the wrapper, and the    *)
(* one worker thread the constructor creates.  Every atomic access and     *)
(* every pthread call of the class is one step of the thread making it.    *)
(*                                                                         *)
(* The worker function is supplied by the caller; it follows the loop      *)
(* contract (set _running, call wait() each iteration, leave on false,     *)
(* clear _running).  Under SpecSelf it may also call stop_thread() itself. *)
(*                                                                         *)
(* The fields of the wrapper keep their last value once the destructor     *)
(* body has run (the destructor writes none of them; releasing the storage *)
(* is the caller's business).  Spurious wake-ups of the condition variable *)
(* are not modelled.                                                       *)
(***************************************************************************)
EXTENDS Integers, Naturals, FiniteSets, Sequences, TLC

\* #define MILLION 1000000
MILLION == 1000000

\* tv_nsec of a valid timespec is below one second
NSEC_PER_SEC == 1000 * MILLION

\* ---- bounds of the model ----
\* the clock runs freely up to MaxNow microseconds
MaxNow == 1000000
\* explicit stop_thread() calls the owner makes before destroying
MaxStops == 2
\* one clock step, a fifth of a second
TickStep == MILLION \div 5
\* the timeouts the owner configures (microseconds)
Timeouts == {400000, 1600000}

Threads == {"owner", "worker"}

VARIABLES
    done,                   \* std::atomic<bool> done
    _running,               \* std::atomic<bool> _running
    _attached,              \* std::atomic<bool> _attached
    _timeout_microseconds,  \* unsigned int _timeout_microseconds
    thr,                    \* worker_thread as the thread library sees it
    mutex,                  \* _my_mutex: "free", "worker" (held), "destroyed"
    cond,                   \* _my_cond: "live", "destroyed"
    pc,                     \* position of each thread
    ret_to,                 \* where each thread's stop_thread() call returns to
    now,                    \* wall clock, microseconds
    tp,                     \* wait(): struct timeval tp
    seconds,                \* wait(): int seconds
    microseconds,           \* wait(): int microseconds
    ts,                     \* wait(): struct timespec ts
    rc,                     \* wait(): int rc
    wait_result,            \* value the current wait() call returned (at w_ret)
    reads,                  \* wait(): the two values read from _timeout_microseconds
    startDone,              \* done at the moment the current wait() call started
    trueAfterStop,          \* wait() calls that returned true with done already set
    sigHit,                 \* line 93 signalled while the current wait() call was blocked
    sigAt,                  \* clock value at that signal
    wakeAt,                 \* clock value when the current wait() call was unblocked
    locked,                 \* the current wait() call has called pthread_mutex_lock
    observed,               \* the thread's current stop_thread() call has read _running == false
    joinRet,                \* result of pthread_join in the thread's current stop_thread() call
    joinCalls,              \* pthread_join calls made so far
    stops,                  \* explicit stop_thread() calls the owner has made
    stopsDone,              \* stop_thread() calls of the owner that have returned
    selfStops               \* stop_thread() calls the worker has made

vars == <<done, _running, _attached, _timeout_microseconds, thr, mutex, cond, pc,
          ret_to, now, tp, seconds, microseconds, ts, rc, wait_result, reads,
          startDone, trueAfterStop, sigHit, sigAt, wakeAt, locked, observed, joinRet, joinCalls, stops,
          stopsDone, selfStops>>

shared == <<done, _running, _attached, _timeout_microseconds>>
lib == <<thr, mutex, cond>>
waitLocals == <<tp, seconds, microseconds, ts, rc, wait_result, reads, startDone, trueAfterStop,
                sigHit, sigAt, wakeAt, locked>>
stopHist == <<observed, joinRet, joinCalls, stops, stopsDone, selfStops>>

NoTime == 0 - 1
NoTs == [tv_sec |-> 0, tv_nsec |-> 0]

\* the absolute deadline of a timespec, in microseconds
DeadlineUs(t) == t.tv_sec * MILLION + t.tv_nsec \div 1000

Goto(t, l) == pc' = [pc EXCEPT ![t] = l]

\* ---- construction ----
\* the member initialisers and the pthread_create call: the state in which
\* the worker exists and the constructor is about to detach it
Init ==
    /\ done = FALSE
    /\ _running = FALSE
    /\ _attached = TRUE
    /\ _timeout_microseconds \in Timeouts
    /\ thr = "joinable"
    /\ mutex = "free"
    /\ cond = "live"
    /\ pc = [t \in Threads |-> IF t = "owner" THEN "c68" ELSE "created"]
    /\ ret_to = [t \in Threads |-> "none"]
    /\ now = 0
    /\ tp = NoTime
    /\ seconds = 0
    /\ microseconds = 0
    /\ ts = NoTs
    /\ rc = "none"
    /\ wait_result = FALSE
    /\ reads = <<>>
    /\ startDone = FALSE
    /\ trueAfterStop = 0
    /\ sigHit = FALSE
    /\ sigAt = NoTime
    /\ wakeAt = NoTime
    /\ locked = FALSE
    /\ observed = [t \in Threads |-> FALSE]
    /\ joinRet = [t \in Threads |-> "none"]
    /\ joinCalls = 0
    /\ stops = 0
    /\ stopsDone = 0
    /\ selfStops = 0

\* what pthread_detach may return
DetachResults == {"OK", "ESRCH", "EINVAL", "EOTHER"}

\* a constructor that falls through to line 81 when pthread_detach fails
Ctor68_NoReturn ==
    /\ pc["owner"] = "c68"
    /\ \E ret \in DetachResults :
         IF ret = "OK"
         THEN thr' = "detached" /\ Goto("owner", "c81")
         ELSE thr' = thr /\ Goto("owner", "c81")
    /\ UNCHANGED <<shared, mutex, cond, ret_to, now, waitLocals, stopHist>>

\* ret = pthread_detach(worker_thread); a failure warns and returns
Ctor68 ==
    /\ pc["owner"] = "c68"
    /\ \E ret \in DetachResults :
         IF ret = "OK"
         THEN thr' = "detached" /\ Goto("owner", "c81")
         ELSE thr' = thr /\ Goto("owner", "idle")
    /\ UNCHANGED <<shared, mutex, cond, ret_to, now, waitLocals, stopHist>>

\* _attached = false
Ctor81 ==
    /\ pc["owner"] = "c81"
    /\ _attached' = FALSE
    /\ Goto("owner", "idle")
    /\ UNCHANGED <<done, _running, _timeout_microseconds, lib, ret_to, now,
                   waitLocals, stopHist>>

\* ---- set_timeout ----
set_timeout(timeout_microseconds) ==
    /\ pc["owner"] = "idle"
    /\ _timeout_microseconds' = timeout_microseconds
    /\ UNCHANGED <<done, _running, _attached, lib, pc, ret_to, now, waitLocals,
                   stopHist>>

SetTimeout == \E t \in Timeouts : t # _timeout_microseconds /\ set_timeout(t)

\* ---- stop_thread (run by thread t) ----
\* stop_thread() that signals without setting the termination flag
Stop91_NoFlag(t) ==
    /\ pc[t] = "s91"
    /\ Goto(t, "s93")
    /\ UNCHANGED <<shared, lib, ret_to, now, waitLocals, stopHist>>

\* stop_thread() that issues its signal where the flag should be written
Stop91_SignalBeforeFlag(t) ==
    /\ pc[t] = "s91"
    /\ sigHit' = (sigHit \/ pc["worker"] = "blocked")
    /\ sigAt' = IF pc["worker"] = "blocked" THEN now ELSE sigAt
    /\ IF pc["worker"] = "blocked" /\ cond = "live"
       THEN /\ pc' = [pc EXCEPT ![t] = "s93", !["worker"] = "woken"]
            /\ rc' = "OK"
            /\ wakeAt' = now
       ELSE /\ Goto(t, "s93")
            /\ UNCHANGED <<rc, wakeAt>>
    /\ UNCHANGED <<shared, lib, ret_to, now, tp, seconds, microseconds, ts,
                   wait_result, reads, startDone, trueAfterStop, locked, stopHist>>

\* done = true
Stop91(t) ==
    /\ pc[t] = "s91"
    /\ done' = TRUE
    /\ Goto(t, "s93")
    /\ UNCHANGED <<_running, _attached, _timeout_microseconds, lib, ret_to, now,
                   waitLocals, stopHist>>

\* stop_thread() without the wake-up: line 93 left out
Stop93_NoSignal(t) ==
    /\ pc[t] = "s93"
    /\ sigHit' = (sigHit \/ pc["worker"] = "blocked")
    /\ sigAt' = IF pc["worker"] = "blocked" THEN now ELSE sigAt
    /\ Goto(t, "s98")
    /\ UNCHANGED <<shared, lib, ret_to, now, tp, seconds, microseconds, ts, rc,
                   wait_result, reads, startDone, trueAfterStop, wakeAt, locked, stopHist>>

\* pthread_cond_signal(&_my_cond): unblocks the thread blocked on the
\* condition variable, if there is one; otherwise it has no effect
Stop93(t) ==
    /\ pc[t] = "s93"
    /\ sigHit' = (sigHit \/ pc["worker"] = "blocked")
    /\ sigAt' = IF pc["worker"] = "blocked" THEN now ELSE sigAt
    /\ IF pc["worker"] = "blocked" /\ cond = "live"
       THEN /\ pc' = [pc EXCEPT ![t] = "s98", !["worker"] = "woken"]
            /\ rc' = "OK"
            /\ wakeAt' = now
       ELSE /\ Goto(t, "s98")
            /\ UNCHANGED <<rc, wakeAt>>
    /\ UNCHANGED <<shared, lib, ret_to, now, tp, seconds, microseconds, ts,
                   wait_result, reads, startDone, trueAfterStop, locked, stopHist>>

\* stop_thread() joining whenever the thread is attached, _running untested
Stop98_NoRunningTest(t) ==
    /\ pc[t] = "s98"
    /\ IF _attached THEN Goto(t, "s99") ELSE Goto(t, "s118")
    /\ UNCHANGED <<shared, lib, ret_to, now, waitLocals, stopHist>>

\* stop_thread() joining whenever the worker is running, _attached untested
Stop98_NoAttachedTest(t) ==
    /\ pc[t] = "s98"
    /\ IF _running THEN Goto(t, "s99") ELSE Goto(t, "s118")
    /\ UNCHANGED <<shared, lib, ret_to, now, waitLocals, stopHist>>

\* if (_running && _attached)
Stop98(t) ==
    /\ pc[t] = "s98"
    /\ IF _running /\ _attached THEN Goto(t, "s99") ELSE Goto(t, "s118")
    /\ UNCHANGED <<shared, lib, ret_to, now, waitLocals, stopHist>>

\* what pthread_join(worker_thread) answers at once to caller t, "wait" when
\* the caller has to block until the worker function has returned
JoinAnswer(t) ==
    IF thr = "detached" THEN "EINVAL"
    ELSE IF thr = "joined" THEN "ESRCH"
    ELSE IF t = "worker" THEN "EDEADLK"
    ELSE "wait"

\* int ret = pthread_join(worker_thread, &retval): every error code returns
Stop99(t) ==
    /\ pc[t] = "s99"
    /\ joinCalls' = joinCalls + 1
    /\ IF JoinAnswer(t) = "wait"
       THEN Goto(t, "s99w") /\ joinRet' = joinRet
       ELSE Goto(t, "s_ret") /\ joinRet' = [joinRet EXCEPT ![t] = JoinAnswer(t)]
    /\ UNCHANGED <<shared, lib, ret_to, now, waitLocals, observed, stops,
                   stopsDone, selfStops>>

\* pthread_join returns 0 once the worker function has returned
Stop99Joined(t) ==
    /\ pc[t] = "s99w"
    /\ pc["worker"] = "finished"
    /\ thr' = "joined"
    /\ joinRet' = [joinRet EXCEPT ![t] = "OK"]
    /\ Goto(t, "s118")
    /\ UNCHANGED <<shared, mutex, cond, ret_to, now, waitLocals, observed,
                   joinCalls, stops, stopsDone, selfStops>>

\* stop_thread() without the poll: it returns whatever _running holds
Stop118_NoPoll(t) ==
    /\ pc[t] = "s118"
    /\ observed' = [observed EXCEPT ![t] = ~_running]
    /\ Goto(t, "s_ret")
    /\ UNCHANGED <<shared, lib, ret_to, now, waitLocals, joinRet, joinCalls,
                   stops, stopsDone, selfStops>>

\* while (_running.load()) {}
Stop118(t) ==
    /\ pc[t] = "s118"
    /\ ~_running
    /\ observed' = [observed EXCEPT ![t] = TRUE]
    /\ Goto(t, "s_ret")
    /\ UNCHANGED <<shared, lib, ret_to, now, waitLocals, joinRet, joinCalls,
                   stops, stopsDone, selfStops>>

\* stop_thread() returns to its caller
StopReturn(t) ==
    /\ pc[t] = "s_ret"
    /\ Goto(t, ret_to[t])
    /\ stopsDone' = IF t = "owner" THEN stopsDone + 1 ELSE stopsDone
    /\ UNCHANGED <<shared, lib, ret_to, now, waitLocals, observed, joinRet,
                   joinCalls, stops, selfStops>>

\* entering stop_thread(): thread t will return to label l
EnterStop(t, l) ==
    /\ Goto(t, "s91")
    /\ ret_to' = [ret_to EXCEPT ![t] = l]
    /\ observed' = [observed EXCEPT ![t] = FALSE]
    /\ joinRet' = [joinRet EXCEPT ![t] = "none"]

\* the owner calls stop_thread() explicitly
CallStop ==
    /\ pc["owner"] = "idle"
    /\ stops < MaxStops
    /\ stops' = stops + 1
    /\ EnterStop("owner", "idle")
    /\ UNCHANGED <<shared, lib, now, waitLocals, joinCalls, stopsDone, selfStops>>

\* ---- ~pthread_wrapper ----
\* stop_thread();
Dtor122 ==
    /\ pc["owner"] = "idle"
    /\ EnterStop("owner", "d123")
    /\ UNCHANGED <<shared, lib, now, waitLocals, joinCalls, stops, stopsDone,
                   selfStops>>

\* pthread_cond_destroy(&_my_cond)
Dtor123 ==
    /\ pc["owner"] = "d123"
    /\ cond' = "destroyed"
    /\ Goto("owner", "d124")
    /\ UNCHANGED <<shared, thr, mutex, ret_to, now, waitLocals, stopHist>>

\* pthread_mutex_destroy(&_my_mutex): a mutex that is still locked is either
\* left alone (EBUSY) or destroyed
Dtor124 ==
    /\ pc["owner"] = "d124"
    /\ \/ mutex' = "destroyed"
       \/ mutex # "free" /\ mutex' = mutex
    /\ Goto("owner", "destroyed")
    /\ UNCHANGED <<shared, thr, cond, ret_to, now, waitLocals, stopHist>>

\* ---- the worker function (the caller's loop contract) ----
\* the function starts: _running = true
WorkerStart ==
    /\ pc["worker"] = "created"
    /\ _running' = TRUE
    /\ Goto("worker", "work")
    /\ UNCHANGED <<done, _attached, _timeout_microseconds, lib, ret_to, now,
                   waitLocals, stopHist>>

\* one iteration of work done, the loop calls wait()
WorkerCallWait ==
    /\ pc["worker"] = "work"
    /\ Goto("worker", "w128")
    /\ startDone' = done
    /\ trueAfterStop' = trueAfterStop
    /\ tp' = NoTime /\ seconds' = 0 /\ microseconds' = 0 /\ ts' = NoTs
    /\ rc' = "none" /\ wait_result' = FALSE /\ reads' = <<>>
    /\ sigHit' = FALSE /\ sigAt' = NoTime /\ wakeAt' = NoTime /\ locked' = FALSE
    /\ UNCHANGED <<shared, lib, ret_to, now, stopHist>>

\* the loop tests what wait() returned
WorkerAfterWait ==
    /\ pc["worker"] = "w_ret"
    /\ IF wait_result THEN Goto("worker", "work") ELSE Goto("worker", "w_exit")
    /\ UNCHANGED <<shared, lib, ret_to, now, waitLocals, stopHist>>

\* the loop is left: _running = false, the function returns
WorkerExit ==
    /\ pc["worker"] = "w_exit"
    /\ _running' = FALSE
    /\ Goto("worker", "finished")
    /\ UNCHANGED <<done, _attached, _timeout_microseconds, lib, ret_to, now,
                   waitLocals, stopHist>>

\* ---- wait (run by the worker) ----
\* wait() returns r
Return(r) ==
    /\ wait_result' = r
    /\ trueAfterStop' = IF r /\ done THEN trueAfterStop + 1 ELSE trueAfterStop
    /\ Goto("worker", "w_ret")

\* wait() without the termination check
Wait128_NoCheck ==
    /\ pc["worker"] = "w128"
    /\ Goto("worker", "w144")
    /\ UNCHANGED <<shared, lib, ret_to, now, waitLocals, stopHist>>

\* wait() consuming the termination flag when it sees it
Wait128_Consume ==
    /\ pc["worker"] = "w128"
    /\ IF done
       THEN Return(FALSE) /\ done' = FALSE
       ELSE /\ Goto("worker", "w144") /\ wait_result' = wait_result /\ done' = done
            /\ trueAfterStop' = trueAfterStop
    /\ UNCHANGED <<_running, _attached, _timeout_microseconds, lib, ret_to, now,
                   tp, seconds, microseconds, ts, rc, reads, startDone, sigHit,
                   sigAt, wakeAt, locked, stopHist>>

\* wait() with the termination check inverted
Wait128_InvertedCheck ==
    /\ pc["worker"] = "w128"
    /\ IF ~done
       THEN Return(FALSE)
       ELSE /\ Goto("worker", "w144") /\ wait_result' = wait_result
            /\ trueAfterStop' = trueAfterStop
    /\ UNCHANGED <<shared, lib, ret_to, now, tp, seconds, microseconds, ts, rc,
                   reads, startDone, sigHit, sigAt, wakeAt, locked, stopHist>>

\* if (done) return false;
Wait128 ==
    /\ pc["worker"] = "w128"
    /\ IF done
       THEN Return(FALSE)
       ELSE /\ Goto("worker", "w144") /\ wait_result' = wait_result
            /\ trueAfterStop' = trueAfterStop
    /\ UNCHANGED <<shared, lib, ret_to, now, tp, seconds, microseconds, ts, rc,
                   reads, startDone, sigHit, sigAt, wakeAt, locked, stopHist>>

\* gettimeofday(&tp, nullptr)
Wait144 ==
    /\ pc["worker"] = "w144"
    /\ tp' = now
    /\ Goto("worker", "w146")
    /\ UNCHANGED <<shared, lib, ret_to, now, seconds, microseconds, ts, rc,
                   wait_result, reads, startDone, trueAfterStop,
                   sigHit, sigAt, wakeAt, locked, stopHist>>

\* int seconds = _timeout_microseconds / MILLION (first read of the field)
Wait146 ==
    /\ pc["worker"] = "w146"
    /\ seconds' = _timeout_microseconds \div MILLION
    /\ reads' = <<_timeout_microseconds>>
    /\ Goto("worker", "w147")
    /\ UNCHANGED <<shared, lib, ret_to, now, tp, microseconds, ts, rc,
                   wait_result, startDone, trueAfterStop, sigHit, sigAt, wakeAt, locked, stopHist>>

\* the deadline computed from the clock value and the split timeout:
\*   int tmp = tp.tv_usec + microseconds;
\*   if (tmp > MILLION) { tmp = tmp - MILLION; seconds = seconds + 1; }
\*   ts.tv_sec = tp.tv_sec + seconds; ts.tv_nsec = 1000 * tmp;
Deadline(tv_sec, tv_usec, secs, usecs) ==
    LET tmp == tv_usec + usecs
    IN  IF tmp > MILLION
        THEN [tv_sec |-> tv_sec + secs + 1, tv_nsec |-> 1000 * (tmp - MILLION)]
        ELSE [tv_sec |-> tv_sec + secs, tv_nsec |-> 1000 * tmp]

\* int microseconds = _timeout_microseconds % MILLION (second read of the
\* field), then the deadline
Wait147 ==
    /\ pc["worker"] = "w147"
    /\ microseconds' = _timeout_microseconds % MILLION
    /\ reads' = Append(reads, _timeout_microseconds)
    /\ ts' = Deadline(tp \div MILLION, tp % MILLION, seconds,
                      _timeout_microseconds % MILLION)
    /\ Goto("worker", "w157")
    /\ UNCHANGED <<shared, lib, ret_to, now, tp, seconds, rc, wait_result,
                   startDone, trueAfterStop, sigHit, sigAt, wakeAt, locked, stopHist>>

\* pthread_mutex_lock(&_my_mutex): the mutex is error-checking, a thread that
\* already holds it gets EDEADLK and keeps holding it
Wait157 ==
    /\ pc["worker"] = "w157"
    /\ mutex' = IF mutex = "free" THEN "worker" ELSE mutex
    /\ locked' = TRUE
    /\ Goto("worker", "w158")
    /\ UNCHANGED <<shared, thr, cond, ret_to, now, tp, seconds, microseconds, ts,
                   rc, wait_result, reads, startDone, trueAfterStop, sigHit, sigAt, wakeAt, stopHist>>

\* what pthread_cond_timedwait answers without blocking: EINVAL for a
\* deadline that is no valid timespec, EPERM when the caller does not hold
\* the mutex, "block" otherwise
TimedwaitEntry(t) ==
    IF t.tv_nsec < 0 \/ t.tv_nsec >= NSEC_PER_SEC THEN "EINVAL"
    ELSE IF mutex # "worker" THEN "EPERM"
    ELSE "block"

\* int rc = pthread_cond_timedwait(&_my_cond, &_my_mutex, &ts): releases the
\* mutex and blocks
Wait158 ==
    /\ pc["worker"] = "w158"
    /\ IF TimedwaitEntry(ts) = "block"
       THEN mutex' = "free" /\ rc' = rc /\ Goto("worker", "blocked")
       ELSE mutex' = mutex /\ rc' = TimedwaitEntry(ts) /\ Goto("worker", "w159")
    /\ UNCHANGED <<shared, thr, cond, ret_to, now, tp, seconds, microseconds, ts,
                   wait_result, reads, startDone, trueAfterStop,
                   sigHit, sigAt, wakeAt, locked, stopHist>>

\* the deadline passes while the worker is blocked: ETIMEDOUT
WaitTimeout ==
    /\ pc["worker"] = "blocked"
    /\ now >= DeadlineUs(ts)
    /\ rc' = "ETIMEDOUT"
    /\ wakeAt' = now
    /\ Goto("worker", "woken")
    /\ UNCHANGED <<shared, lib, ret_to, now, tp, seconds, microseconds, ts,
                   wait_result, reads, startDone, trueAfterStop, sigHit, sigAt, locked, stopHist>>

\* pthread_cond_timedwait takes the mutex again and returns rc
WaitResume ==
    /\ pc["worker"] = "woken"
    /\ mutex' = IF mutex = "free" THEN "worker" ELSE mutex
    /\ Goto("worker", "w159")
    /\ UNCHANGED <<shared, thr, cond, ret_to, now, waitLocals, stopHist>>

\* a wait() that reports an invalid deadline as "proceed"
WaitOutcome_EinvalTrue(r, m) ==
    IF r = "EINVAL"
    THEN [result |-> TRUE, mutex |-> IF m = "worker" THEN "free" ELSE m]
    ELSE IF r = "EPERM" THEN [result |-> FALSE, mutex |-> m]
    ELSE [result |-> TRUE, mutex |-> m]

\* what wait() returns for result r of the timed wait, and what it leaves
\* of mutex state m:
\*   if (rc == ETIMEDOUT) return true;
\*   else if (rc == EINVAL) { pthread_mutex_unlock(&_my_mutex); return false; }
\*   else if (rc == EPERM) return false;
\*   return true;
WaitOutcome(r, m) ==
    IF r = "ETIMEDOUT" THEN [result |-> TRUE, mutex |-> m]
    ELSE IF r = "EINVAL"
         THEN [result |-> FALSE, mutex |-> IF m = "worker" THEN "free" ELSE m]
    ELSE IF r = "EPERM" THEN [result |-> FALSE, mutex |-> m]
    ELSE [result |-> TRUE, mutex |-> m]

\* lines 159-168: the result of the timed wait decides what wait() returns
Wait159 ==
    /\ pc["worker"] = "w159"
    /\ Return(WaitOutcome(rc, mutex).result)
    /\ mutex' = WaitOutcome(rc, mutex).mutex
    /\ UNCHANGED <<shared, thr, cond, ret_to, now, tp, seconds, microseconds, ts,
                   rc, reads, startDone, sigHit, sigAt, wakeAt, locked, stopHist>>

\* the worker calls stop_thread() from inside its loop (SpecSelf only)
WorkerCallStop ==
    /\ pc["worker"] = "work"
    /\ selfStops = 0
    /\ selfStops' = 1
    /\ EnterStop("worker", "work")
    /\ UNCHANGED <<shared, lib, now, waitLocals, joinCalls, stops, stopsDone>>

\* ---- the clock ----
\* time passes; beyond MaxNow it passes only towards the deadline of the one
\* wait() call that can still be blocked after the stop request
Tick ==
    /\ \/ now < MaxNow
       \/ done /\ pc["worker"] = "blocked" /\ now < DeadlineUs(ts)
    /\ now' = now + TickStep
    /\ UNCHANGED <<shared, lib, pc, ret_to, waitLocals, stopHist>>

\* ---- specifications ----
StopSteps(t) ==
    \/ Stop91(t) \/ Stop93(t) \/ Stop98(t) \/ Stop99(t) \/ Stop99Joined(t)
    \/ Stop118(t) \/ StopReturn(t)

OwnerCalls == SetTimeout \/ CallStop \/ Dtor122

OwnerSteps == Ctor68 \/ Ctor81 \/ StopSteps("owner") \/ Dtor123 \/ Dtor124

WaitSteps ==
    \/ Wait128 \/ Wait144 \/ Wait146 \/ Wait147 \/ Wait157 \/ Wait158
    \/ WaitTimeout \/ WaitResume \/ Wait159

WorkerSteps ==
    \/ WorkerStart \/ WorkerCallWait \/ WorkerAfterWait \/ WorkerExit \/ WaitSteps

Next == OwnerCalls \/ OwnerSteps \/ WorkerSteps \/ Tick

Spec == Init /\ [][Next]_vars

\* both threads are scheduled and the clock advances
Fairness == WF_vars(OwnerSteps) /\ WF_vars(WorkerSteps) /\ WF_vars(Tick)

LiveSpec == Spec /\ Fairness

\* the worker function may call stop_thread() itself
NextSelf == Next \/ WorkerCallStop \/ StopSteps("worker")

SpecSelf == Init /\ [][NextSelf]_vars

\* ---- claims ----
StopPcs == {"s91", "s93", "s98", "s99", "s99w", "s118", "s_ret"}
InWait == {"w128", "w144", "w146", "w147", "w157", "w158", "blocked", "woken",
           "w159", "w_ret"}
\* the owner has made no stop request: no stop_thread() call, no destructor
NoStopRequest == pc["owner"] \in {"c68", "c81", "idle"} /\ stops = 0 /\ ~done

\* C1: the destructor reaches pthread_cond_destroy / pthread_mutex_destroy
\* only after the worker function has returned, in every interleaving.
C1_DestroyAfterWorkerFinished ==
    pc["owner"] \in {"d123", "d124", "destroyed"} => pc["worker"] = "finished"

\* C2 (as stated): on every path, stop_thread() returns only after it has
\* read _running == false.
C2_ReturnsOnlyAfterObserving ==
    \A t \in Threads : pc[t] = "s_ret" => observed[t]

\* C2 (amended): stop_thread() returns after having read _running == false
\* exactly on the paths where the join was skipped or pthread_join returned
\* 0; where pthread_join returned an error it returns without reading
\* _running.
C2_ReturnsAfterObservingUnlessJoinError ==
    \A t \in Threads :
        pc[t] = "s_ret" => (observed[t] <=> joinRet[t] \in {"none", "OK"})

C2_Witness ==
    /\ pc["owner"] = "s_ret" /\ joinRet["owner"] = "OK" /\ observed["owner"]
    /\ selfStops = 1

\* C3: a wait() call that starts after the termination flag was set returns
\* false without reading the clock, locking the mutex or blocking.
C3_WaitAfterStopReturnsFalse ==
    startDone =>
        /\ pc["worker"] \notin (InWait \ {"w128", "w_ret"})
        /\ ~locked
        /\ tp = NoTime
        /\ rc = "none"
        /\ wait_result = FALSE

C3_Witness == startDone /\ pc["worker"] = "w_ret" /\ wait_result = FALSE

\* C4: a wait() call that is blocked on the condition variable when
\* stop_thread() signals is unblocked by that signal, at the moment of the
\* signal and not by its deadline, and returns true.
C4_SignalWakesBlockedWait ==
    sigHit =>
        /\ pc["worker"] # "blocked"
        /\ rc = "OK"
        /\ wakeAt = sigAt
        /\ (sigAt < DeadlineUs(ts) => wakeAt < DeadlineUs(ts))
        /\ (pc["worker"] \in {"w_ret", "work"} => wait_result = TRUE)

C4_Witness ==
    /\ sigHit /\ pc["worker"] = "w_ret" /\ wait_result = TRUE
    /\ wakeAt < DeadlineUs(ts) /\ now < DeadlineUs(ts)

\* C5: with no stop request, every wait() call returns true, and not before
\* its deadline now + T.
C5_TimeoutReturnsTrueNotEarly ==
    (NoStopRequest /\ pc["worker"] = "w_ret") =>
        /\ wait_result = TRUE
        /\ now >= DeadlineUs(ts)

\* C6: the deadline is the clock value plus the timeout, with a microsecond
\* part below one million (tv_nsec below 1,000,000,000).
C6_DeadlineCarry ==
    Len(reads) = 2 =>
        LET u == ts.tv_nsec \div 1000
        IN  /\ ts.tv_sec * MILLION + u = tp + seconds * MILLION + microseconds
            /\ ts.tv_nsec = 1000 * u
            /\ 0 <= u /\ u < MILLION
            /\ ts.tv_nsec < NSEC_PER_SEC

\* stop_thread() calls the owner has entered, explicit or from the destructor
OwnerEntered == stops + (IF ret_to["owner"] = "d123" THEN 1 ELSE 0)

\* C7: over the whole lifetime pthread_join is called at most once, and a
\* second stop_thread() call (explicit, or the destructor's) returns.
C7_IdempotentShutdown ==
    /\ [](joinCalls <= 1)
    /\ (OwnerEntered >= 2) ~> (stopsDone >= 2)

C7_Witness == stopsDone >= 2 /\ joinCalls = 1 /\ pc["owner"] = "destroyed"

\* C8: the deadline of a wait() call is the clock value plus one single
\* timeout value that was configured when the call read it.
C8_DeadlineFromOneTimeout ==
    Len(reads) = 2 =>
        \E i \in 1..2 : DeadlineUs(ts) = tp + reads[i]

\* C9: once the owner has called stop_thread(), the worker function returns
\* with _running false, every stop_thread() call of the owner returns, and a
\* destructor that was entered completes.
C9_ShutdownTerminates ==
    /\ (pc["owner"] = "s91") ~> (pc["worker"] = "finished" /\ ~_running)
    /\ (pc["owner"] \in StopPcs) ~> (pc["owner"] \notin StopPcs)
    /\ (ret_to["owner"] = "d123") ~> (pc["owner"] = "destroyed")

\* the lost-signal interleaving: the stop request came after the termination
\* check, the wait ran to its deadline, and shutdown still completed
C9_Witness ==
    /\ pc["owner"] = "destroyed" /\ pc["worker"] = "finished" /\ ~_running
    /\ now > MaxNow /\ stopsDone >= 2

\* C10: the termination flag starts false, never goes back to false, and is
\* written by line 91 of stop_thread() only.
C10_DoneMonotonic ==
    /\ done = FALSE
    /\ [][/\ done => done'
          /\ done' # done => \E t \in Threads : pc[t] = "s91" /\ pc'[t] = "s93"]_vars

C10_Witness == done /\ pc["owner"] = "s93" /\ stopsDone >= 1

\* C11: the termination flag is set before the signal, so a wait() call
\* woken by the signal finds the flag true, the worker's next wait() call
\* starts with the flag set, and a call that starts with it set returns false.
C11_FlagBeforeSignal ==
    /\ [](sigHit => done)
    /\ [][(sigHit /\ pc["worker"] = "work" /\ pc'["worker"] = "w128")
            => (startDone' /\ done')]_vars
    /\ []((startDone /\ pc["worker"] = "w_ret") => ~wait_result)

C11_Witness ==
    /\ sigHit /\ rc = "OK" /\ done
    /\ pc["worker"] = "work" /\ wait_result = TRUE /\ pc["owner"] = "s99w"

\* C12 (as stated): a worker whose detach failed has been joined by the time
\* the destructor finishes, in every interleaving.
C12_FailedDetachIsJoined ==
    /\ (pc["owner"] \notin {"c68", "c81"} /\ thr # "detached") => _attached
    /\ (pc["owner"] = "destroyed" /\ _attached) => thr = "joined"

\* C12 (amended): when pthread_detach fails construction completes with
\* _attached left true, and the worker has been joined by the time the
\* destructor finishes exactly when some stop_thread() call read _running
\* true at line 98 and so called pthread_join; when every call read it false
\* (worker not yet started, or already out of its loop) the join is skipped
\* and the thread is left unjoined.
C12_FailedDetachJoinedIffRunningSeen ==
    /\ (pc["owner"] \notin {"c68", "c81"}) => (_attached <=> thr # "detached")
    /\ (pc["owner"] = "destroyed" /\ _attached) =>
           (thr = "joined" <=> joinCalls = 1)
    /\ thr = "joined" => (_attached /\ pc["worker"] = "finished")

C12_Witness ==
    pc["owner"] = "destroyed" /\ _attached /\ thr = "joined" /\ joinCalls = 1

\* C13: _attached is true from the start of construction, becomes false only
\* at line 81 after pthread_detach has succeeded, never changes afterwards,
\* and pthread_join is never called while _attached is false: a detached
\* thread is never joined.
C13_AttachedFlag ==
    /\ _attached = TRUE
    /\ [][/\ _attached' # _attached =>
               (_attached /\ thr = "detached"
                    /\ pc["owner"] = "c81" /\ pc'["owner"] = "idle")
          /\ joinCalls' # joinCalls => (_attached /\ thr # "detached")]_vars
    /\ [](\A t \in Threads : pc[t] \in {"s99", "s99w"} => _attached)
    /\ [](thr = "detached" => joinCalls = 0)

\* a detached worker went through a whole shutdown without a join
C13_Witness ==
    /\ ~_attached /\ thr = "detached" /\ pc["owner"] = "destroyed"
    /\ pc["worker"] = "finished" /\ joinCalls = 0 /\ now > MaxNow

\* results pthread_cond_timedwait can hand to lines 159-168
RcValues == {"ETIMEDOUT", "EINVAL", "EPERM", "OK", "EINTR"}

\* C14: ETIMEDOUT returns true; EINVAL unlocks the mutex and returns false;
\* EPERM returns false without unlocking; every other result, the signal of
\* stop_thread() included, returns true.  Stated of lines 159-168 for every
\* result, and of every wait() call that has gone through the timed wait.
C14_WaitResultByOutcome ==
    /\ \A r \in RcValues : \A m \in {"worker", "free"} :
         LET o == WaitOutcome(r, m)
         IN  /\ o.result = (r \notin {"EINVAL", "EPERM"})
             /\ o.mutex = (IF r = "EINVAL" THEN "free" ELSE m)
    /\ (pc["worker"] = "w_ret" /\ rc # "none") =>
         /\ rc \in RcValues
         /\ wait_result = (rc \notin {"EINVAL", "EPERM"})
         /\ (rc = "EINVAL" => mutex = "free")
         /\ (rc \in {"ETIMEDOUT", "OK"} => mutex = "worker")

\* a wait anomaly has been reported to the loop as false
C14_Witness ==
    pc["worker"] = "w_ret" /\ rc = "EINVAL" /\ ~wait_result /\ mutex = "free"

\* C15: a stop_thread() call made by the worker itself while _running is
\* true returns: it never ends up polling _running at line 118, a flag that
\* only the polling thread itself would clear.
C15_SelfStopReturns ==
    ~(pc["worker"] = "s118" /\ _running)

\* C16: no wake-up is lost: once stop_thread() has signalled, no wait() call
\* is left blocked on the condition variable with only its deadline to wake it.
C16_NoLostWakeup ==
    ~(pc["worker"] = "blocked" /\ done
        /\ pc["owner"] \in {"s98", "s99", "s99w", "s118"})

\* C17: every return of wait() leaves the mutex not held by the worker, so
\* pthread_mutex_lock finds it free and so does pthread_mutex_destroy.
C17_MutexHeldOnlyInWait ==
    /\ pc["worker"] \in {"w_ret", "work", "w_exit", "finished"} => mutex # "worker"
    /\ pc["worker"] = "w157" => mutex = "free"
    /\ pc["owner"] = "d124" => mutex = "free"

\* C18: with the termination flag set, at most one wait() call returns true,
\* the call that had passed line 128 before the flag was set; every call
\* that starts later returns false, so the loop does at most one further
\* iteration.
C18_AtMostOneTrueAfterStop ==
    /\ trueAfterStop <= 1
    /\ (done /\ pc["worker"] = "w_ret" /\ wait_result) => ~startDone
    /\ (startDone /\ pc["worker"] = "w_ret") => ~wait_result

\* the one further iteration happened, and the call after it returned false
C18_Witness ==
    trueAfterStop = 1 /\ startDone /\ pc["worker"] = "w_ret" /\ ~wait_result

====
